---- MODULE Spec2Model ----
(***************************************************************************)
(* Model of the AI cheat-sheet generator: the two-stage generation         *)
(* protocol of CheatSheetAgent and PracticeGenerator (first completion     *)
(* request, length gate, one escalated request), the file write of the     *)
(* generated text, and the configuration both read.                        *)
(*                                                                         *)
(* Texts.  A response body is [txt, len]: txt names the character stream   *)
(* the completion service produced and len is its length in characters.    *)
(* The first n characters of a body b are [txt |-> b.txt, len |-> n].      *)
(* Prompts are sequences of segments (literal template pieces and the      *)
(* interpolated fields), concatenated with \o as the f-strings do.         *)
(***************************************************************************)
EXTENDS Integers, Sequences, FiniteSets, TLC

(***************************************************************************)
(* Bounds of the model.                                                    *)
(***************************************************************************)
\* response lengths are taken within LenSlack of each threshold
LenSlack == 1
\* the wall clock runs from 0 to MaxTime ticks
MaxTime == 2
\* clock ticks per second: the clock is finer than the file timestamps
TicksPerSecond == 2
\* process runs in a session
MaxRuns == 2

(***************************************************************************)
(* Program constants.                                                      *)
(***************************************************************************)
CheatThreshold == 5000
PracticeThreshold == 6000
DefaultMaxTokens == 16000
CheatPromptMinExamples == 75
CheatPromptTargetWords == 8000
CheatPromptMinItems == 150
CheatEnhancedMinWords == 8000
CheatEnhancedMinExamples == 75
PracticePromptTargetWords == 10000
PracticeEnhancedMinWords == 10000
DefaultExerciseCount == 20
PreviewChars == 2000

\* Python's None
None == [none |-> TRUE]

(***************************************************************************)
(* Config (config.py)                                                      *)
(***************************************************************************)
\* dict.update(saved): keys of saved replace or extend those of d
DictUpdate(d, saved) ==
    [k \in (DOMAIN d) \cup (DOMAIN saved) |->
        IF k \in DOMAIN saved THEN saved[k] ELSE d[k]]

\* Config.load_config: the defaults, updated by the saved file when it
\* exists and parses.  file is [exists, valid, data]; env is the value of
\* os.getenv("OPENAI_API_KEY", "").
LoadConfig(file, env) ==
    LET defaults == [openai_api_key |-> env,
                     default_difficulty |-> "intermediate",
                     default_format |-> "comprehensive",
                     default_include_examples |-> TRUE,
                     output_directory |-> "cheat_sheets",
                     model |-> "gpt-4o",
                     max_tokens |-> DefaultMaxTokens,
                     temperature |-> "0.7"]
    IN  IF file.exists /\ file.valid
        THEN DictUpdate(defaults, file.data)
        ELSE defaults

\* Config.get: dict.get(key, default)
ConfigGet(cfg, key, default) ==
    IF key \in DOMAIN cfg THEN cfg[key] ELSE default

\* Config.get_api_key: get("openai_api_key") or os.getenv(...), "" -> None
GetApiKey(cfg, env) ==
    LET fromCfg == ConfigGet(cfg, "openai_api_key", "")
        key == IF fromCfg # "" THEN fromCfg ELSE env
    IN  key

(***************************************************************************)
(* Text segments                                                           *)
(***************************************************************************)
\* a literal piece of a template
Lit(s) == [k |-> "lit", s |-> s, n |-> 0, l |-> <<>>]
\* an interpolated text field: l is its value, a sequence of strings
Fld(name, v) == [k |-> "field", s |-> name, n |-> 0, l |-> v]
\* a number written in the text, literal or interpolated
Num(name, n) == [k |-> "num", s |-> name, n |-> n, l |-> <<>>]

\* str(bool) as an f-string renders it
StrBool(b) == IF b THEN <<"True">> ELSE <<"False">>

\* variant: the items are joined last to first
RECURSIVE JoinReversed(_)
JoinReversed(list) ==
    IF Len(list) = 0 THEN <<>>
    ELSE IF Len(list) = 1 THEN <<list[1]>>
    ELSE JoinReversed(Tail(list)) \o <<", ", list[1]>>

\* ', '.join(list)
RECURSIVE Join(_)
Join(list) ==
    IF Len(list) = 0 THEN <<>>
    ELSE IF Len(list) = 1 THEN <<list[1]>>
    ELSE <<list[1], ", ">> \o Join(Tail(list))

\* the numbers a text states under a given name, in order
RECURSIVE NumsOf(_, _)
NumsOf(text, name) ==
    IF Len(text) = 0 THEN <<>>
    ELSE (IF text[1].k = "num" /\ text[1].s = name THEN <<text[1].n>> ELSE <<>>)
         \o NumsOf(Tail(text), name)

\* needle occurs in text as a contiguous run starting at position i
OccursAt(needle, text, i) ==
    /\ i >= 1
    /\ i + Len(needle) - 1 <= Len(text)
    /\ SubSeq(text, i, i + Len(needle) - 1) = needle

IsSubstring(needle, text) ==
    \E i \in 1..(Len(text) + 1) : OccursAt(needle, text, i)

(***************************************************************************)
(* PromptBuilder                                                           *)
(***************************************************************************)
\* the default exercise types of _create_practice_prompt
DefaultExerciseTypes ==
    <<"Basic Concepts", "Practical Applications", "Problem Solving",
      "Real-world Projects", "Code Debugging", "Performance Optimization",
      "Best Practices", "Integration Challenges">>

\* CheatSheetAgent._create_prompt; config is a CheatSheetConfig
CreatePrompt(config) ==
    LET base_prompt ==
            << Lit("Create an EXTREMELY COMPREHENSIVE and DETAILED cheat sheet for "),
               Fld("topic", config.topic),
               Lit(" targeted at "),
               Fld("difficulty_level", <<config.difficulty_level>>),
               Lit(" level users. CRITICAL REQUIREMENTS: ENGLISH only ... Style: "),
               Fld("format_style", <<config.format_style>>),
               Lit(" ... Include examples: "),
               Fld("include_examples", StrBool(config.include_examples)),
               Lit(" ... Minimum "),
               Num("min_examples", CheatPromptMinExamples),
               Lit("+ code examples across different use cases ...") >>
        sections_directive ==
            IF config.sections # None /\ Len(config.sections.list) > 0
            THEN << Lit("Focus extensively on these sections with deep detail: "),
                    Fld("sections", Join(config.sections.list)),
                    Lit("\n") >>
            ELSE <<>>
        structure_guide ==
            << Lit("MANDATORY STRUCTURE - Each section must be COMPREHENSIVE: # "),
               Fld("topic", config.topic),
               Lit(" - Complete Reference Guide ... MINIMUM LENGTH: "),
               Num("min_items", CheatPromptMinItems),
               Lit("+ distinct pieces of information ... TARGET: "),
               Num("min_words", CheatPromptTargetWords),
               Lit("+ words for truly comprehensive coverage.") >>
    IN  base_prompt \o sections_directive \o structure_guide

\* PracticeGenerator._create_practice_prompt; config is a PracticeConfig
CreatePracticePrompt(config) ==
    LET exercise_types ==
            IF config.exercise_types # None /\ Len(config.exercise_types.list) > 0
            THEN config.exercise_types.list
            ELSE DefaultExerciseTypes
        base_prompt ==
            << Lit("Create an EXTREMELY COMPREHENSIVE and PRACTICAL exercise document for "),
               Fld("topic", config.topic),
               Lit(" targeted at "),
               Fld("difficulty_level", <<config.difficulty_level>>),
               Lit(" level learners. CRITICAL REQUIREMENTS: ENGLISH only ... Difficulty Level: "),
               Fld("difficulty_level", <<config.difficulty_level>>),
               Lit(" ... Include solutions: "),
               Fld("include_solutions", StrBool(config.include_solutions)),
               Lit(" ... Number of exercises: "),
               Num("min_examples", config.exercise_count),
               Lit("+ exercises across different categories ...") >>
        focus_directive ==
            IF config.focus_areas # None /\ Len(config.focus_areas.list) > 0
            THEN << Lit("Focus extensively on these areas: "),
                    Fld("focus_areas", Join(config.focus_areas.list)),
                    Lit("\n") >>
            ELSE <<>>
        structure_guide ==
            << Lit("MANDATORY STRUCTURE - Each section must be COMPREHENSIVE: # "),
               Fld("topic", config.topic),
               Lit(" - Comprehensive Practice Exercises ... Beginner Level ("),
               Num("level_exercises", config.exercise_count \div 4),
               Lit(" exercises) ... Intermediate Level ("),
               Num("level_exercises", config.exercise_count \div 3),
               Lit(" exercises) ... Advanced Level ("),
               Num("level_exercises", config.exercise_count \div 3),
               Lit(" exercises) ... Expert Level ("),
               Num("level_exercises", config.exercise_count \div 4),
               Lit(" exercises) ... SPECIAL FOCUS AREAS: "),
               Fld("exercise_types", Join(exercise_types)),
               Lit(" ... someone could master "),
               Fld("topic", config.topic),
               Lit(" through these exercises alone ... MINIMUM REQUIREMENTS: "),
               Num("min_examples", config.exercise_count),
               Lit("+ individual exercises ... TARGET: "),
               Num("min_words", PracticePromptTargetWords),
               Lit("+ words for truly comprehensive practical learning.") >>
    IN  base_prompt \o focus_directive \o structure_guide

\* the amplification directives placed before the original prompt
\* (cheat_sheet_agent.py, the head of enhanced_prompt)
CheatEnhancedHead(config) ==
    << Lit("The previous response was too brief. Please create a MUCH MORE COMPREHENSIVE cheat sheet for "),
       Fld("topic", config.topic),
       Lit(". REQUIREMENTS: ENGLISH only - Minimum "),
       Num("min_words", CheatEnhancedMinWords),
       Lit("+ words - Include at least "),
       Num("min_examples", CheatEnhancedMinExamples),
       Lit(" code examples ... TOP 50+ most used methods ...") >>

\* the directive placed after the original prompt
CheatEnhancedTail ==
    << Lit("IMPORTANT: Make this substantially longer and more detailed than a typical cheat sheet. This should be a complete learning resource.") >>
\* variant: the enhanced prompt replaces the original prompt
CheatEnhancedPromptReplacing(config, prompt) ==
    CheatEnhancedHead(config) \o CheatEnhancedTail

\* enhanced_prompt of generate_cheat_sheet
CheatEnhancedPrompt(config, prompt) ==
    CheatEnhancedHead(config) \o prompt \o CheatEnhancedTail

\* the head of enhanced_prompt in generate_practice_exercises
PracticeEnhancedHead(config) ==
    << Lit("The previous response was too brief. Please create a MUCH MORE COMPREHENSIVE practice document for "),
       Fld("topic", config.topic),
       Lit(". REQUIREMENTS: ENGLISH only - Minimum "),
       Num("min_words", PracticeEnhancedMinWords),
       Lit("+ words - Include at least "),
       Num("min_examples", config.exercise_count),
       Lit(" detailed exercises ...") >>

PracticeEnhancedTail ==
    << Lit("IMPORTANT: Make this a complete practical learning resource with extensive exercises and detailed solutions.") >>

\* enhanced_prompt of generate_practice_exercises
PracticeEnhancedPrompt(config, prompt) ==
    PracticeEnhancedHead(config) \o prompt \o PracticeEnhancedTail

(***************************************************************************)
(* Inputs                                                                  *)
(***************************************************************************)
\* topics, as sequences of characters
Topics == { <<"p">>, <<"R", " ", "H">>, <<" ">> }
CheatDifficulties == {"intermediate"}
PracticeDifficulties == {"intermediate", "mixed"}
FormatStyles == {"comprehensive"}
\* an Optional[list]: None or [list |-> <<...>>]
SomeList(l) == [list |-> l]
OptionalLists == { None, SomeList(<<>>), SomeList(<<"setup", "api">>) }
ExerciseCounts == { DefaultExerciseCount }

\* the OPENAI_API_KEY of the environment ("" when unset)
EnvKeys == { "", "sk-env" }
\* the home-directory config file
ConfigFiles ==
    { [exists |-> FALSE, valid |-> FALSE, data |-> <<>>],
      [exists |-> TRUE, valid |-> FALSE, data |-> <<>>],
      [exists |-> TRUE, valid |-> TRUE,
       data |-> [model |-> "gpt-4", output_directory |-> "out"]],
      [exists |-> TRUE, valid |-> TRUE,
       data |-> [openai_api_key |-> "sk-file", model |-> "gpt-3.5-turbo"]] }

\* response lengths: around each threshold, and well below and above
Lens ==
    {0, 2000, 7000, 9000}
    \cup ((CheatThreshold - LenSlack)..(CheatThreshold + LenSlack))
    \cup ((PracticeThreshold - LenSlack)..(PracticeThreshold + LenSlack))

Body(t, n) == [txt |-> t, len |-> n]
Bodies == { Body("a", n) : n \in Lens } \cup { Body("b", 2000), Body("b", 9000) }

\* what a completion call can do: return a message with a text body,
\* return a message whose content is None, or raise
Responses ==
    { [kind |-> "text", body |-> b] : b \in Bodies }
    \cup { [kind |-> "null", body |-> None], [kind |-> "error", body |-> None] }

\* what open()/write() can do in save_*: succeed, fail in open() (nothing
\* created or changed), or fail after open() with n characters on disk
WriteOutcomes == { "ok", "open_fails", "write_fails_empty", "write_fails_partial" }

(***************************************************************************)
(* State                                                                   *)
(***************************************************************************)
VARIABLES
    env_api_key,   \* OPENAI_API_KEY of the process environment
    config_file,   \* ~/.cheat_sheet_agent/config.json
    now,           \* the wall clock, in ticks
    fs,            \* the files under the output directory: path -> text
    pc,            \* position of the command being run
    kind,          \* "cheat" or "practice" once a generator is constructed
    self_config,   \* Config.default_config of the generator
    doc,           \* the CheatSheetConfig / PracticeConfig of the call
    preview,       \* the preview argument
    requests,      \* completion requests issued so far, in order
    responses,     \* what each request returned or raised
    content,       \* the local variable content
    opens,         \* number of open() calls made by save_*
    console,       \* messages printed
    result,        \* return value of create_* ("pending" until it returns)
    command,       \* the command of main.py being run
    cheat_filepath, \* the local cheat_filepath of the complete command
    runs,          \* number of process runs started so far
    saves          \* the documents stored so far, in order: what each
                   \* successful save_* wrote, where and when

vars == <<env_api_key, config_file, now, fs, pc, kind, self_config, doc,
          preview, requests, responses, content, opens, console, result,
          command, cheat_filepath, runs, saves>>

Pending == [pending |-> TRUE]

Init ==
    /\ env_api_key \in EnvKeys
    /\ config_file \in ConfigFiles
    /\ now = 0
    /\ fs = [p \in {} |-> None]
    /\ pc = "main"
    /\ kind = "none"
    /\ self_config = None
    /\ doc = None
    /\ preview = FALSE
    /\ requests = <<>>
    /\ responses = <<>>
    /\ content = None
    /\ opens = 0
    /\ console = <<>>
    /\ result = Pending
    /\ command = "none"
    /\ cheat_filepath = None
    /\ runs = 1
    /\ saves = <<>>

(***************************************************************************)
(* Construction of the generators                                          *)
(***************************************************************************)
\* variant: the constructor does not check the API key
ConstructUnchecked(k) ==
    /\ pc = "main"
    /\ self_config' = LoadConfig(config_file, env_api_key)
    /\ pc' = "constructed"
    /\ kind' = k
    /\ UNCHANGED <<saves, cheat_filepath, runs, env_api_key, config_file, now,
                   fs, doc, preview, requests, responses, content, opens,
                   console, result>>

\* CheatSheetAgent.__init__ / PracticeGenerator.__init__: load the config
\* and raise ValueError when there is no API key
Construct(k) ==
    /\ pc = "main"
    /\ LET cfg == LoadConfig(config_file, env_api_key)
           api_key == GetApiKey(cfg, env_api_key)
       IN  /\ self_config' = cfg
           /\ IF api_key = ""
              THEN /\ pc' = "aborted"
                   /\ kind' = kind
              ELSE /\ pc' = "constructed"
                   /\ kind' = k
    /\ UNCHANGED <<saves, cheat_filepath, runs, env_api_key, config_file, now, fs, doc, preview, requests,
                   responses, content, opens, console, result>>

\* main.py generate: agent = CheatSheetAgent()
GenerateCommand ==
    /\ command' = "generate"
    /\ Construct("cheat")

\* main.py practice: generator = PracticeGenerator()
PracticeCommand ==
    /\ command' = "practice"
    /\ Construct("practice")

\* main.py complete: cheat_agent = CheatSheetAgent()
CompleteCommand ==
    /\ command' = "complete"
    /\ Construct("cheat")

\* variant: complete goes on to its practice stage whatever the cheat-sheet
\* stage returned
CompleteGoesOnRegardless ==
    command = "complete" /\ kind = "cheat" /\ pc = "returned"

\* the cheat-sheet stage of complete returned a path: the command goes on
\* to its practice stage
CompleteGoesOn ==
    command = "complete" /\ kind = "cheat" /\ pc = "returned" /\ result # None

\* the process has ended: by an uncaught exception, or the command returned
ProcessEnded ==
    \/ pc = "aborted"
    \/ pc = "returned" /\ ~CompleteGoesOn

\* the exit status of the ended process: the command functions return
\* normally whatever create_* returned, and nothing calls sys.exit; an
\* uncaught exception ends the interpreter with status 1
ExitStatus == IF pc = "aborted" THEN 1 ELSE 0

(***************************************************************************)
(* GenerationEngine                                                        *)
(***************************************************************************)
Say(m) == [msg |-> m, text |-> None]
Show(m, t) == [msg |-> m, text |-> t]

\* the first n characters of a text (content[:n])
Prefix(t, n) == [txt |-> t.txt, len |-> IF n < t.len THEN n ELSE t.len]

\* the system role text of each stage
SystemText(k, stage) ==
    IF k = "cheat"
    THEN IF stage = 1
         THEN "You are an expert technical writer and educator who creates comprehensive, well-structured cheat sheets ..."
         ELSE "You are an expert technical writer who creates extremely comprehensive, detailed reference documents. Never provide brief or summary content ..."
    ELSE IF stage = 1
         THEN "You are an expert educator and practical coding instructor who creates comprehensive, progressive practice exercises ..."
         ELSE "You are an expert practical coding instructor who creates extremely comprehensive, detailed practice documents. Never provide brief content ..."

\* the model of a request: self.config.get("model", default)
FirstModel(cfg) == ConfigGet(cfg, "model", "gpt-4")

SecondModel(cfg) == ConfigGet(cfg, "model", "gpt-4o")

\* the arguments of client.chat.completions.create
Request(model, system, user, cfg) ==
    [model |-> model,
     system |-> system,
     user |-> user,
     temperature |-> ConfigGet(cfg, "temperature", "0.7"),
     max_tokens |-> ConfigGet(cfg, "max_tokens", DefaultMaxTokens)]

FirstRequest(k, cfg, prompt) ==
    Request(FirstModel(cfg), SystemText(k, 1), prompt, cfg)

SecondRequest(k, cfg, enhanced_prompt) ==
    Request(SecondModel(cfg), SystemText(k, 2), enhanced_prompt, cfg)

\* the enhanced prompt of the second stage
EnhancedPrompt(k, config, prompt) ==
    IF k = "cheat"
    THEN CheatEnhancedPrompt(config, prompt)
    ELSE PracticeEnhancedPrompt(config, prompt)
\* variant: the gate taken with <= instead of <
CheatIsShortInclusive(c) == c.len <= CheatThreshold

\* the quality gate: len(content) < 5000 (cheat sheet), < 6000 (practice)
CheatIsShort(c) == c.len < CheatThreshold

PracticeIsShort(c) == c.len < PracticeThreshold

IsShort(k, c) == IF k = "cheat" THEN CheatIsShort(c) ELSE PracticeIsShort(c)
\* variant: create_* also rejects content below the cheat-sheet threshold
NotContentOrShort(c) == c = None \/ c.len < CheatThreshold

\* "not content" in create_*: None and the empty string are falsy
NotContent(c) == c = None \/ c.len = 0

\* what preview_* prints: the whole content (cheat sheet), the first 2000
\* characters and a continuation note (practice)
PreviewMessage(k, c) ==
    IF k = "cheat"
    THEN Show("cheat_preview", c)
    ELSE Show("practice_preview_truncated", Prefix(c, PreviewChars))

\* variant: with preview on, create_* goes on with the previewed text
ContinueCreateWithPreviewed(c, said) ==
    /\ content' = IF preview /\ c # None
                  THEN PreviewMessage(kind, c).text
                  ELSE c
    /\ IF NotContent(c)
       THEN /\ result' = None
            /\ pc' = "returned"
            /\ console' = said \o <<Say("main_failed")>>
       ELSE /\ result' = result
            /\ pc' = "save"
            /\ console' = said \o (IF preview THEN <<PreviewMessage(kind, c)>> ELSE <<>>)

\* generate_* returned c to create_*: return None on falsy content,
\* otherwise preview when asked and go on to save_*.  said is the console
\* after generate_*.
ContinueCreate(c, said) ==
    /\ content' = c
    /\ IF NotContent(c)
       THEN /\ result' = None
            /\ pc' = "returned"
            /\ console' = said \o <<Say("main_failed")>>
       ELSE /\ result' = result
            /\ pc' = "save"
            /\ console' = said \o (IF preview THEN <<PreviewMessage(kind, c)>> ELSE <<>>)

\* create_cheat_sheet up to the first completion call of generate_cheat_sheet
CreateCheatSheet(topic, difficulty, sections, format_style, include_examples, pv) ==
    /\ pc = "constructed"
    /\ kind = "cheat"
    /\ LET config == [topic |-> topic,
                      difficulty_level |-> difficulty,
                      sections |-> sections,
                      format_style |-> format_style,
                      include_examples |-> include_examples]
           prompt == CreatePrompt(config)
       IN  /\ doc' = config
           /\ requests' = <<FirstRequest("cheat", self_config, prompt)>>
    /\ preview' = pv
    /\ console' = console \o <<Say("generating_cheat_sheet")>>
    /\ pc' = "call1"
    /\ UNCHANGED <<command, saves, cheat_filepath, runs, env_api_key, config_file, now, fs, kind, self_config,
                   responses, content, opens, result>>

\* create_practice_document up to the first completion call of
\* generate_practice_exercises
CreatePracticeDocument(topic, difficulty, exercise_count, include_solutions, focus_areas, exercise_types, pv) ==
    /\ pc = "constructed"
    /\ kind = "practice"
    /\ LET config == [topic |-> topic,
                      difficulty_level |-> difficulty,
                      exercise_count |-> exercise_count,
                      include_solutions |-> include_solutions,
                      exercise_types |-> exercise_types,
                      focus_areas |-> focus_areas]
           prompt == CreatePracticePrompt(config)
       IN  /\ doc' = config
           /\ requests' = <<FirstRequest("practice", self_config, prompt)>>
    /\ preview' = pv
    /\ console' = console \o <<Say("generating_practice")>>
    /\ pc' = "call1"
    /\ UNCHANGED <<command, saves, cheat_filepath, runs, env_api_key, config_file, now, fs, kind, self_config,
                   responses, content, opens, result>>

\* the first completion call returns or raises: the length gate and, for a
\* short body, the second call; otherwise back in create_*
FirstResponse(resp) ==
    /\ pc = "call1"
    /\ responses' = Append(responses, resp)
    /\ IF resp.kind = "text"
       THEN IF IsShort(kind, resp.body)
            THEN /\ content' = resp.body
                 /\ console' = console \o <<Say("short_warning")>>
                 /\ requests' = Append(requests,
                        SecondRequest(kind, self_config,
                            EnhancedPrompt(kind, doc, requests[1].user)))
                 /\ pc' = "call2"
                 /\ result' = result
            ELSE /\ ContinueCreate(resp.body, console)
                 /\ requests' = requests
       ELSE \* the call raised, or len(None) raised TypeError: except branch
            /\ ContinueCreate(None, console \o <<Say("error_generating")>>)
            /\ requests' = requests
    /\ UNCHANGED <<command, saves, cheat_filepath, runs, env_api_key, config_file, now, fs, kind, self_config, doc,
                   preview, opens>>
\* variant: the gate is applied again to the second response
SecondResponseLooping(resp) ==
    /\ pc = "call2"
    /\ responses' = Append(responses, resp)
    /\ IF resp.kind = "error"
       THEN /\ ContinueCreate(None, console \o <<Say("error_generating")>>)
            /\ requests' = requests
       ELSE IF resp.kind = "text" /\ IsShort(kind, resp.body) /\ Len(requests) < 3
            THEN /\ content' = resp.body
                 /\ console' = console
                 /\ requests' = Append(requests, requests[2])
                 /\ pc' = "call2"
                 /\ result' = result
            ELSE /\ ContinueCreate(resp.body, console)
                 /\ requests' = requests
    /\ UNCHANGED <<command, saves, cheat_filepath, runs, env_api_key, config_file, now, fs, kind, self_config, doc,
                   preview, opens>>

\* variant: an error of the second call falls back to the first content
SecondResponseFallsBack(resp) ==
    /\ pc = "call2"
    /\ responses' = Append(responses, resp)
    /\ IF resp.kind = "error"
       THEN ContinueCreate(content, console \o <<Say("error_generating")>>)
       ELSE ContinueCreate(resp.body, console)
    /\ UNCHANGED <<command, saves, cheat_filepath, runs, env_api_key, config_file, now, fs, kind, self_config, doc,
                   preview, requests, opens>>

\* the second completion call returns or raises; its content is final
SecondResponse(resp) ==
    /\ pc = "call2"
    /\ responses' = Append(responses, resp)
    /\ IF resp.kind = "error"
       THEN ContinueCreate(None, console \o <<Say("error_generating")>>)
       ELSE ContinueCreate(resp.body, console)
    /\ UNCHANGED <<command, saves, cheat_filepath, runs, env_api_key, config_file, now, fs, kind, self_config, doc,
                   preview, requests, opens>>

(***************************************************************************)
(* DocumentSink                                                            *)
(***************************************************************************)
\* str.lower() on the characters of the topics
LowerChar(c) ==
    CASE c = "R" -> "r"
      [] c = "H" -> "h"
      [] c = "P" -> "p"
      [] OTHER -> c

\* variant: the topic is not lower-cased
NormalizeTopicKeepingCase(topic) ==
    [i \in 1..Len(topic) |-> IF topic[i] = " " THEN "_" ELSE topic[i]]

\* topic.lower().replace(' ', '_')
NormalizeTopic(topic) ==
    [i \in 1..Len(topic) |->
        IF LowerChar(topic[i]) = " " THEN "_" ELSE LowerChar(topic[i])]

\* variant: the timestamp has minute resolution ("%Y%m%d_%H%M")
TimestampToMinutes(t) == t \div (TicksPerSecond * 60)

\* datetime.now().strftime("%Y%m%d_%H%M%S"): the clock cut to whole seconds
Timestamp(t) == t \div TicksPerSecond

\* self.output_dir
OutputDir(cfg) == <<ConfigGet(cfg, "output_directory", "cheat_sheets")>>

\* self.practice_dir
PracticeDir(cfg) == OutputDir(cfg) \o <<"practices">>

\* filepath of save_cheat_sheet
CheatFilePath(cfg, topic, t) ==
    [dir |-> OutputDir(cfg),
     stem |-> NormalizeTopic(topic),
     ts |-> Timestamp(t),
     ext |-> ".md"]

\* filepath of save_practice_document
PracticeFilePath(cfg, topic, difficulty, t) ==
    [dir |-> PracticeDir(cfg),
     stem |-> NormalizeTopic(topic) \o <<"_practice_", difficulty>>,
     ts |-> Timestamp(t),
     ext |-> ".md"]

FilePath(k, cfg, config, t) ==
    IF k = "cheat"
    THEN CheatFilePath(cfg, config.topic, t)
    ELSE PracticeFilePath(cfg, config.topic, config.difficulty_level, t)

\* variant: opening a file for writing leaves no other file behind
WithFileAlone(files, path, text) ==
    [p \in {path} |-> text]

\* the file system after path holds text
WithFile(files, path, text) ==
    [p \in (DOMAIN files) \cup {path} |-> IF p = path THEN text ELSE files[p]]
\* variant: a successful write stores only the previewed characters
WriteFileTruncating(files, path, c, outcome) ==
    CASE outcome = "ok" -> WithFile(files, path, Prefix(c, PreviewChars))
      [] outcome = "open_fails" -> files
      [] outcome = "write_fails_empty" -> WithFile(files, path, Prefix(c, 0))
      [] outcome = "write_fails_partial" -> WithFile(files, path, Prefix(c, c.len \div 2))

\* open(filepath, 'w') and f.write(content) under each outcome: open()
\* creates or truncates the file, write() fills it, and nothing removes it
\* when write() raises
WriteFile(files, path, c, outcome) ==
    CASE outcome = "ok" -> WithFile(files, path, c)
      [] outcome = "open_fails" -> files
      [] outcome = "write_fails_empty" -> WithFile(files, path, Prefix(c, 0))
      [] outcome = "write_fails_partial" -> WithFile(files, path, Prefix(c, c.len \div 2))

\* the return value of save_*: the path, or None from the except branch
SaveResult(path, outcome) == IF outcome = "ok" THEN path ELSE None

\* what create_* returns for the filepath save_* gave it
CreateResult(filepath) == IF filepath # None THEN filepath ELSE None

\* save_cheat_sheet / save_practice_document and the rest of create_*
Save(outcome) ==
    /\ pc = "save"
    /\ LET filepath == FilePath(kind, self_config, doc, now)
           saved == SaveResult(filepath, outcome)
       IN  /\ fs' = WriteFile(fs, filepath, content, outcome)
           /\ result' = CreateResult(saved)
           /\ console' = console \o
                IF saved # None
                THEN <<Say("saved"), Say("main_success")>>
                ELSE <<Say("error_saving"), Say("main_failed")>>
           /\ saves' = IF saved # None
                       THEN Append(saves, [path |-> filepath, at |-> now,
                                           kind |-> kind, topic |-> doc.topic,
                                           text |-> content])
                       ELSE saves
    /\ opens' = opens + 1
    /\ pc' = "returned"
    /\ UNCHANGED <<command, cheat_filepath, runs, env_api_key, config_file, now, kind, self_config, doc,
                   preview, requests, responses, content>>

\* time passes while the command runs
Tick ==
    /\ ~ProcessEnded
    /\ now < MaxTime
    /\ now' = now + 1
    /\ UNCHANGED <<command, saves, cheat_filepath, runs, env_api_key, config_file, fs, pc, kind, self_config, doc,
                   preview, requests, responses, content, opens, console,
                   result>>

(***************************************************************************)
(* Specification                                                           *)
(***************************************************************************)
Next ==
    \/ GenerateCommand
    \/ PracticeCommand
    \/ \E topic \in Topics, difficulty \in CheatDifficulties,
          sections \in OptionalLists, format_style \in FormatStyles,
          include_examples \in {TRUE}, pv \in BOOLEAN :
            CreateCheatSheet(topic, difficulty, sections, format_style,
                             include_examples, pv)
    \/ \E topic \in Topics, difficulty \in PracticeDifficulties,
          exercise_count \in ExerciseCounts, include_solutions \in {TRUE},
          focus_areas \in OptionalLists, pv \in BOOLEAN :
            CreatePracticeDocument(topic, difficulty, exercise_count,
                                   include_solutions, focus_areas, None, pv)
    \/ \E resp \in Responses : FirstResponse(resp)
    \/ \E resp \in Responses : SecondResponse(resp)
    \/ \E outcome \in WriteOutcomes : Save(outcome)
    \/ Tick

Spec == Init /\ [][Next]_vars

(***************************************************************************)
(* Sessions: the complete command, and several process runs, one after     *)
(* the other, over the same output directory                               *)
(***************************************************************************)
\* main.py complete, after a successful cheat-sheet stage: construct the
\* PracticeGenerator and call create_practice_document with the same topic
\* and difficulty, up to its first completion call
CompletePracticeStage(exercises) ==
    /\ CompleteGoesOn
    /\ cheat_filepath' = result
    /\ LET cfg == LoadConfig(config_file, env_api_key)
           config == [topic |-> doc.topic,
                      difficulty_level |-> doc.difficulty_level,
                      exercise_count |-> exercises,
                      include_solutions |-> TRUE,
                      exercise_types |-> None,
                      focus_areas |-> None]
       IN  /\ self_config' = cfg
           /\ doc' = config
           /\ requests' = <<FirstRequest("practice", cfg, CreatePracticePrompt(config))>>
    /\ kind' = "practice"
    /\ responses' = <<>>
    /\ content' = None
    /\ opens' = 0
    /\ result' = Pending
    /\ console' = console \o <<Say("step_2"), Say("generating_practice")>>
    /\ pc' = "call1"
    /\ UNCHANGED <<command, saves, runs, env_api_key, config_file, now, fs, preview>>

\* the process has ended and the program is started again
NextRun ==
    /\ ProcessEnded
    /\ runs < MaxRuns
    /\ runs' = runs + 1
    /\ pc' = "main"
    /\ kind' = "none"
    /\ self_config' = None
    /\ doc' = None
    /\ preview' = FALSE
    /\ requests' = <<>>
    /\ responses' = <<>>
    /\ content' = None
    /\ opens' = 0
    /\ console' = <<>>
    /\ result' = Pending
    /\ command' = "none"
    /\ cheat_filepath' = None
    /\ UNCHANGED <<env_api_key, config_file, now, fs, saves>>

\* the inputs of a session
SessionTopics == { <<"p">> }
SessionWriteOutcomes == { "ok", "write_fails_partial" }
SessionResponses ==
    { [kind |-> "text", body |-> Body("a", 2000)],
      [kind |-> "text", body |-> Body("b", 9000)],
      [kind |-> "error", body |-> None] }

InitSession ==
    /\ Init
    /\ config_file = [exists |-> FALSE, valid |-> FALSE, data |-> <<>>]

NextSession ==
    \/ GenerateCommand
    \/ PracticeCommand
    \/ CompleteCommand
    \/ \E topic \in SessionTopics, difficulty \in CheatDifficulties :
            CreateCheatSheet(topic, difficulty, None, "comprehensive", TRUE, FALSE)
    \/ \E topic \in SessionTopics, difficulty \in CheatDifficulties :
            CreatePracticeDocument(topic, difficulty, DefaultExerciseCount, TRUE, None, None, FALSE)
    \/ \E exercises \in ExerciseCounts : CompletePracticeStage(exercises)
    \/ \E resp \in SessionResponses : FirstResponse(resp)
    \/ \E resp \in SessionResponses : SecondResponse(resp)
    \/ \E outcome \in SessionWriteOutcomes : Save(outcome)
    \/ Tick
    \/ NextRun

SpecSession == InitSession /\ [][NextSession]_vars

TypeOK ==
    /\ pc \in {"main", "aborted", "constructed", "call1", "call2", "save", "returned"}
    /\ kind \in {"none", "cheat", "practice"}
    /\ now \in 0..MaxTime
    /\ Len(requests) \in 0..2
    /\ Len(responses) <= Len(requests)

(***************************************************************************)
(* Properties                                                              *)
(***************************************************************************)
Threshold(k) == IF k = "cheat" THEN CheatThreshold ELSE PracticeThreshold

\* the last response received
FinalResponse == responses[Len(responses)]

\* generate_* has returned: every request issued has been answered
Answered == Len(responses) >= 1 /\ Len(responses) = Len(requests)

AllText == \A i \in 1..Len(responses) : responses[i].kind = "text"

SomeError == \E i \in 1..Len(responses) : responses[i].kind = "error"

Printed(m) == \E i \in 1..Len(console) : console[i].msg = m

\* C1: once the first call has been answered, a second (escalated) request
\* has been issued if and only if the first call returned a text body
\* shorter than 5000 characters (cheat sheet) or 6000 characters (practice);
\* at exactly the threshold there is none, and there is never a second
\* request before a first response.
C1_EscalatesIffBelowThreshold ==
    /\ Len(requests) = 2 => Len(responses) >= 1
    /\ Len(responses) >= 1 =>
          ( Len(requests) = 2
            <=> /\ responses[1].kind = "text"
                /\ \/ kind = "cheat" /\ responses[1].body.len < 5000
                   \/ kind = "practice" /\ responses[1].body.len < 6000 )

C1_Witness ==
    /\ kind = "cheat"
    /\ pc = "save"
    /\ Len(requests) = 1
    /\ responses[1].kind = "text"
    /\ responses[1].body.len = 5000

\* C2: an invocation issues at most two completion requests; once the
\* second response is in, no further request exists, whatever its length.
C2_AtMostTwoRequests ==
    /\ Len(requests) <= 2
    /\ Len(responses) = 2 => pc \in {"save", "returned"}

C2_Witness ==
    /\ Len(responses) = 2
    /\ pc = "save"
    /\ responses[2].kind = "text"
    /\ responses[2].body.len < responses[1].body.len
    /\ responses[2].body.len < Threshold(kind)

\* C3: when the first call raises, or the second call raises after a short
\* first response, create_* returns None, no file has been opened or
\* written, and the first-stage content is in no file.
C3_ErrorYieldsNoneAndNoFile ==
    SomeError =>
        /\ pc = "returned"
        /\ result = None
        /\ opens = 0
        /\ DOMAIN fs = {}

C3_Witness ==
    /\ Len(responses) = 2
    /\ responses[1].kind = "text"
    /\ responses[1].body.len > 0
    /\ responses[2].kind = "error"
    /\ pc = "returned"

\* C4: when create_* returns a path, the file at that path holds exactly
\* the final response body: the first body when there was no escalation,
\* the second body when there was one.
C4_StoredFileIsFinalBody ==
    (pc = "returned" /\ result # None) =>
        /\ result \in DOMAIN fs
        /\ Len(requests) = 1 =>
              responses[1].kind = "text" /\ fs[result] = responses[1].body
        /\ Len(requests) = 2 =>
              responses[2].kind = "text" /\ fs[result] = responses[2].body

C4_Witness ==
    /\ pc = "returned"
    /\ result # None
    /\ Len(requests) = 2
    /\ responses[1].body = Body("a", 4999)
    /\ responses[2].body = Body("b", 2000)

\* C5 (as claimed): an escalated request names a model different from the
\* model of the first request of the same invocation.
C5_EscalationModelDistinct ==
    Len(requests) = 2 => requests[2].model # requests[1].model

\* C6: the escalated instruction text contains the first request's
\* instruction text as one contiguous run, with amplification text before
\* it and after it.
C6_EnhancedContainsOriginal ==
    Len(requests) = 2 =>
        \E i \in 2..Len(requests[2].user) :
            /\ OccursAt(requests[1].user, requests[2].user, i)
            /\ i + Len(requests[1].user) - 1 < Len(requests[2].user)

C6_Witness ==
    /\ Len(requests) = 2
    /\ kind = "cheat"
    /\ doc.sections # None
    /\ IsSubstring(requests[1].user, requests[2].user)

\* the amplification text placed before the original prompt
AmplificationHead ==
    IF kind = "cheat" THEN CheatEnhancedHead(doc) ELSE PracticeEnhancedHead(doc)

AllGreater(xs, ys) ==
    /\ Len(xs) > 0
    /\ Len(ys) > 0
    /\ \A i \in 1..Len(xs), j \in 1..Len(ys) : xs[i] > ys[j]

\* C7 (as claimed): the minimum word count and the minimum example or
\* exercise count stated by the amplification are each strictly greater
\* than those stated in the original prompt.
C7_TargetsRaised ==
    Len(requests) = 2 =>
        /\ AllGreater(NumsOf(AmplificationHead, "min_words"),
                      NumsOf(requests[1].user, "min_words"))
        /\ AllGreater(NumsOf(AmplificationHead, "min_examples"),
                      NumsOf(requests[1].user, "min_examples"))

\* create_* returned None without reaching the write step
GenerationFailed == pc = "returned" /\ opens = 0 /\ Len(responses) >= 1

\* a completion call failed: it raised, or its message carried no text
\* (a malformed response)
SomeCallFailed ==
    \E i \in 1..Len(responses) : responses[i].kind \in {"error", "null"}

\* C8 (as claimed): generation fails only if a completion call failed;
\* when every call returned a text body of any length, zero included, the
\* final body is accepted and handed to the write step.
C8_FailsOnlyOnError ==
    /\ GenerationFailed => SomeCallFailed
    /\ (Answered /\ AllText) => (pc = "save" \/ opens = 1)

\* C8 (amended): generation fails only if a completion call failed or the
\* final body is empty; when every call returned a text body and the final
\* one is not empty, that body is accepted and handed to the write step,
\* and it is what a successful write stores.
C8_FailsOnlyOnErrorOrEmpty ==
    /\ GenerationFailed => (SomeCallFailed \/ FinalResponse.body.len = 0)
    /\ (Answered /\ AllText /\ FinalResponse.body.len > 0) =>
          /\ content = FinalResponse.body
          /\ pc = "save" \/ (pc = "returned" /\ opens = 1)
          /\ result \notin {None, Pending} => fs[result] = FinalResponse.body

C8_Witness ==
    /\ pc = "returned"
    /\ Len(responses) = 2
    /\ responses[1].body = Body("a", 0)
    /\ responses[2].body = Body("b", 2000)
    /\ result \in DOMAIN fs

\* the write step failed after a successful generation
StorageFailed == pc = "returned" /\ opens >= 1 /\ Printed("error_saving")

\* what create_* returns when generation fails
GenerationFailureResult == None

\* C9 (as claimed): when the write fails after a successful generation,
\* what create_* returns differs from what it returns for a generation
\* failure, and the write was attempted exactly once.
C9_StorageFailureDistinct ==
    StorageFailed =>
        /\ result # GenerationFailureResult
        /\ opens = 1

\* C10 (as claimed): after a failed write, no file exists at the target
\* path.
C10_NoPartialFile ==
    StorageFailed => FilePath(kind, self_config, doc, now) \notin DOMAIN fs

\* the file-name stem the topics of the model should get
ExpectedTopicStem(topic) ==
    CASE topic = <<"p">> -> <<"p">>
      [] topic = <<"R", " ", "H">> -> <<"r", "_", "h">>
      [] topic = <<" ">> -> <<"_">>

\* the output directory the configuration names
ConfiguredOutputDir ==
    IF config_file.exists /\ config_file.valid
       /\ "output_directory" \in DOMAIN config_file.data
    THEN config_file.data.output_directory
    ELSE "cheat_sheets"

\* C11: a successful generation has written exactly one file; its name is
\* the lower-cased topic with spaces as underscores, then
\* _practice_<difficulty> for a practice document only, then the
\* second-resolution timestamp and .md; a cheat sheet lies directly in the
\* output directory, a practice document in its practices subdirectory.
C11_FileNameAndLocation ==
    (pc = "returned" /\ result # None) =>
        /\ DOMAIN fs = {result}
        /\ opens = 1
        /\ result.ext = ".md"
        /\ result.ts * TicksPerSecond <= now
        /\ now < (result.ts + 1) * TicksPerSecond
        /\ kind = "cheat" =>
              /\ result.dir = <<ConfiguredOutputDir>>
              /\ result.stem = ExpectedTopicStem(doc.topic)
        /\ kind = "practice" =>
              /\ result.dir = <<ConfiguredOutputDir, "practices">>
              /\ result.stem = ExpectedTopicStem(doc.topic)
                               \o <<"_practice_", doc.difficulty_level>>

C11_Witness ==
    /\ pc = "returned"
    /\ result # None
    /\ kind = "practice"
    /\ doc.topic = <<"R", " ", "H">>
    /\ doc.difficulty_level = "mixed"
    /\ result.dir = <<"out", "practices">>

\* a successful save_* happens in this step
SavesNow == pc = "save" /\ pc' = "returned" /\ result' # None

\* C12: when a document is stored at least one second after an earlier
\* stored document of the same topic and kind, it goes to a different
\* location and the earlier file is left as it was.
C12_DistinctLocations ==
    [][ SavesNow =>
          \A i \in 1..Len(saves) :
              ( /\ saves[i].topic = doc.topic
                /\ saves[i].kind = kind
                /\ now - saves[i].at >= TicksPerSecond )
              => /\ result' # saves[i].path
                 /\ saves[i].path \in DOMAIN fs'
                 /\ fs'[saves[i].path] = fs[saves[i].path] ]_vars

C12_Witness ==
    \E i, j \in 1..Len(saves) :
        /\ i < j
        /\ saves[i].topic = saves[j].topic
        /\ saves[i].kind = saves[j].kind
        /\ saves[j].at - saves[i].at >= TicksPerSecond
        /\ saves[i].path # saves[j].path
        /\ fs[saves[i].path] = saves[i].text
        /\ fs[saves[j].path] = saves[j].text

\* neither the config file nor the environment holds a non-empty API key
NoCredential ==
    /\ env_api_key = ""
    /\ ~ ( /\ config_file.exists
           /\ config_file.valid
           /\ "openai_api_key" \in DOMAIN config_file.data
           /\ config_file.data.openai_api_key # "" )

\* C13: without a usable API key the constructor aborts: no generator is
\* constructed, no create_* call starts, no completion request is issued
\* and no file is written.
C13_NoCredentialNoRequest ==
    NoCredential =>
        /\ pc \in {"main", "aborted"}
        /\ kind = "none"
        /\ doc = None
        /\ Len(requests) = 0
        /\ DOMAIN fs = {}

C13_Witness ==
    /\ NoCredential
    /\ config_file.exists
    /\ pc = "aborted"
    /\ command = "practice"

\* an exception left the command function uncaught
UncaughtException == pc = "aborted"

\* C14 (as claimed): no error leaves a command as an uncaught exception,
\* the missing credential raised by the constructors included.
C14_NoUncaughtException == ~UncaughtException

\* the command failed: the process has ended without every requested
\* document stored
CommandFailed ==
    /\ ProcessEnded
    /\ \/ pc = "aborted"
       \/ result = None

\* C15 (as claimed): the exit status is non-zero whenever generation or
\* storage failed, and zero only when every requested document was stored.
C15_ExitStatusReportsFailure ==
    ProcessEnded => (ExitStatus = 0 <=> ~CommandFailed)

\* the cheat-sheet stage of a complete command has failed
CheatStageFailed ==
    /\ command = "complete"
    /\ kind = "cheat"
    /\ pc = "returned"
    /\ result = None

\* C16: in complete the practice stage runs only after the cheat-sheet
\* stage has stored its file; once the cheat-sheet stage has failed, the
\* run does nothing more (no constructor, no request, no write): the only
\* step left is the start of another process.
C16_CompleteFailsFast ==
    /\ [] ( (command = "complete" /\ kind = "practice") =>
              /\ cheat_filepath # None
              /\ cheat_filepath \in DOMAIN fs
              /\ cheat_filepath.stem = NormalizeTopic(doc.topic)
              /\ \A i \in 1..Len(requests) :
                    requests[i].system = SystemText("practice", i)
              /\ \E i \in 1..Len(saves) :
                    saves[i].kind = "cheat" /\ saves[i].path = cheat_filepath )
    /\ [] ( (command = "complete" /\ kind = "cheat") =>
              /\ cheat_filepath = None
              /\ \A i \in 1..Len(requests) :
                    requests[i].system = SystemText("cheat", i) )
    /\ [][ CheatStageFailed =>
              /\ runs' = runs + 1
              /\ kind' = "none"
              /\ requests' = <<>>
              /\ fs' = fs ]_vars

C16_Witness ==
    /\ CheatStageFailed
    /\ content # None
    /\ Len(requests) = 2
    /\ runs = MaxRuns
    /\ \E i \in 1..Len(saves) : saves[i].kind = "practice"

\* the optional list of the document specification that the prompt may
\* carry as a directive, the name of its field and the directive's opening
OptionalList == IF kind = "cheat" THEN doc.sections ELSE doc.focus_areas
OptionalListName == IF kind = "cheat" THEN "sections" ELSE "focus_areas"
DirectiveOpening ==
    IF kind = "cheat"
    THEN "Focus extensively on these sections with deep detail: "
    ELSE "Focus extensively on these areas: "
StructureGuideOpening ==
    "MANDATORY STRUCTURE - Each section must be COMPREHENSIVE: # "

\* text is the items of list in order, separated by ", "
ListsInOrder(text, list) ==
    /\ Len(text) = 2 * Len(list) - 1
    /\ \A i \in 1..Len(list) : text[2 * i - 1] = list[i]
    /\ \A i \in 1..(Len(list) - 1) : text[2 * i] = ", "

\* the directive stands at position d of prompt: after the base template
\* and right before the structure guide
DirectiveAt(prompt, d) ==
    /\ d > 1
    /\ d + 3 <= Len(prompt)
    /\ \A i \in 1..(d - 1) : prompt[i].s # StructureGuideOpening
    /\ prompt[d] = Lit(DirectiveOpening)
    /\ prompt[d + 1].k = "field"
    /\ prompt[d + 1].s = OptionalListName
    /\ ListsInOrder(prompt[d + 1].l, OptionalList.list)
    /\ prompt[d + 2] = Lit("\n")
    /\ prompt[d + 3].s = StructureGuideOpening

\* C18: the prompt of the first request carries the directive listing the
\* sections / focus areas in their given order, once, after the base
\* template, exactly when the list is populated; with an absent or empty
\* list neither the directive's opening nor the list appears.
C18_DirectiveIffPopulated ==
    Len(requests) >= 1 =>
        LET prompt == requests[1].user
            populated == OptionalList # None /\ Len(OptionalList.list) > 0
            mentions == { i \in 1..Len(prompt) :
                            \/ prompt[i].s = OptionalListName
                            \/ prompt[i].s = DirectiveOpening }
        IN  IF populated
            THEN \E d \in 1..Len(prompt) :
                    /\ DirectiveAt(prompt, d)
                    /\ mentions = {d, d + 1}
            ELSE mentions = {}

C18_Witness ==
    /\ Len(requests) >= 1
    /\ kind = "practice"
    /\ doc.focus_areas # None
    /\ Len(doc.focus_areas.list) > 1
    /\ \E d \in 1..Len(requests[1].user) : DirectiveAt(requests[1].user, d)

\* the topic is empty after trimming
RECURSIVE IsBlank(_)
IsBlank(topic) ==
    \/ Len(topic) = 0
    \/ topic[1] = " " /\ IsBlank(Tail(topic))

\* C19 (as claimed): a topic that is empty after trimming is never rendered
\* or sent: no completion request is issued and no file is written for it.
C19_BlankTopicRejected ==
    (doc # None /\ IsBlank(doc.topic)) =>
        /\ Len(requests) = 0
        /\ DOMAIN fs = {}

\* the locations of the documents stored so far by a successful save_*
StoredDocuments == { saves[i].path : i \in 1..Len(saves) }

\* C20 (as claimed): once a document has been stored, no later step of the
\* system changes its content or deletes it.
C20_StoredNeverChanges ==
    [][ \A p \in StoredDocuments :
            /\ p \in DOMAIN fs'
            /\ fs'[p] = fs[p] ]_vars

\* C20 (amended): a stored document is never deleted, and its content
\* changes only in a later save_* that opens the very same location (same
\* kind, normalised topic, difficulty and clock second as the earlier save),
\* which replaces it by what that save wrote.
C20_StoredChangesOnlyBySamePathSave ==
    [][ \A p \in StoredDocuments :
            /\ p \in DOMAIN fs'
            /\ fs'[p] # fs[p] =>
                  /\ pc = "save"
                  /\ p = FilePath(kind, self_config, doc, now)
                  /\ \E n \in 0..content.len : fs'[p] = Prefix(content, n)
                  /\ \E i \in 1..Len(saves) :
                        /\ saves[i].path = p
                        /\ saves[i].kind = kind
                        /\ NormalizeTopic(saves[i].topic) = NormalizeTopic(doc.topic)
                        /\ Timestamp(saves[i].at) = Timestamp(now) ]_vars

C20_Witness ==
    \E i, j \in 1..Len(saves) :
        /\ i < j
        /\ saves[i].path = saves[j].path
        /\ saves[i].text # saves[j].text
        /\ fs[saves[j].path] = saves[j].text
        /\ \E q \in StoredDocuments : q # saves[j].path /\ q \in DOMAIN fs

\* the saved config file supplies a non-empty openai_api_key
FileCredential ==
    /\ config_file.exists
    /\ config_file.valid
    /\ "openai_api_key" \in DOMAIN config_file.data
    /\ config_file.data.openai_api_key # ""

\* C21 (as claimed): when the config file and the environment both supply
\* a non-empty credential, get_api_key of the loaded configuration returns
\* the environment's value.
C21_EnvironmentOverridesFile ==
    (self_config # None /\ FileCredential /\ env_api_key # "") =>
        GetApiKey(self_config, env_api_key) = env_api_key

\* what generate_* returns for the responses received: the final text
\* body, None when the final call failed
GeneratedContent ==
    IF FinalResponse.kind = "text" THEN FinalResponse.body ELSE None

\* the console shows a preview
PreviewShown ==
    \E i \in 1..Len(console) :
        console[i].msg \in {"cheat_preview", "practice_preview_truncated"}

\* C22: the requests issued, the content handed to save_*, the outcome and
\* the stored content are determined by the document specification, the
\* configuration and the responses alone, by expressions in which the
\* preview flag does not occur, so runs with preview on and off agree on
\* them; the flag decides only whether the console shows a preview, and
\* the practice preview's cut to 2000 characters stays on the console.
C22_PreviewOnlyConsole ==
    doc # None =>
        LET prompt == IF kind = "cheat"
                      THEN CreatePrompt(doc)
                      ELSE CreatePracticePrompt(doc)
            first == FirstRequest(kind, self_config, prompt)
            second == SecondRequest(kind, self_config,
                                    EnhancedPrompt(kind, doc, prompt))
            escalated == /\ Len(responses) >= 1
                         /\ responses[1].kind = "text"
                         /\ IsShort(kind, responses[1].body)
        IN  /\ requests = IF escalated THEN <<first, second>> ELSE <<first>>
            /\ pc \in {"save", "returned"} =>
                  /\ Answered
                  /\ content = GeneratedContent
                  /\ PreviewShown <=> (preview /\ ~NotContent(content))
            /\ pc = "returned" =>
                  /\ NotContent(content) =>
                        result = None /\ opens = 0 /\ DOMAIN fs = {}
                  /\ ~NotContent(content) => opens = 1
                  /\ result # None =>
                        /\ ~NotContent(content)
                        /\ Len(saves) = 1
                        /\ result = FilePath(kind, self_config, doc, saves[1].at)
                        /\ DOMAIN fs = {result}
                        /\ fs[result] = GeneratedContent
                  /\ result = None => Len(saves) = 0

C22_Witness ==
    /\ pc = "returned"
    /\ preview
    /\ kind = "practice"
    /\ result # None
    /\ content.len > PreviewChars
    /\ fs[result] = content
    /\ \E i \in 1..Len(console) :
          console[i] = Show("practice_preview_truncated",
                            Prefix(content, PreviewChars))

====
